---- MODULE Spec2Model ----
(***************************************************************************)
(* Model of the Starstream node prototype (src/node_prototype/index.ts):   *)
(* the Universe of UTXOs, the per-transaction coordination instance with   *)
(* its handle table, the asyncify-driven UtxoInstance lifecycle, the       *)
(* role-dependent import routing and the token mint/burn imports.          *)
(*                                                                         *)
(* WebAssembly code is the environment: while a contract's code runs       *)
(* (the top frame of `stack`), each host import it may call is one action. *)
(* A thrown Error is not caught anywhere in the prototype, so it unwinds   *)
(* the whole host stack: `Throw`.                                          *)
(***************************************************************************)
EXTENDS Integers, Sequences, FiniteSets, TLC

\* ------------------------------------------------------------------ bounds
MaxUtxos == 2     \* Utxo objects created in one run
MaxTokens == 2    \* Token objects created in one run
MaxSteps == 9     \* steps (host calls, imports, returns) in one run
MaxInputs == 1    \* Utxo values among the inputs of one runTransaction
MaxMem == 1       \* largest value of the modelled memory word (e.g. supply)
MaxLen == 1       \* largest byte length of a resume-argument view
HandleSpace == 2  \* randomU32 draws from 1..HandleSpace (1 << 30 in the code)
MaxResolves == 3  \* resolveCode calls in one run
MaxObjects == 4   \* ContractCode objects constructed in one run
MaxScriptSteps == 16   \* import calls of the example contract's scripts in one run

UtxoIds == 1..MaxUtxos
TokenIds == 1..MaxTokens
Handles == 1..HandleSpace
NoUtxo == 0
NoToken == 0

\* ------------------------------------------------------ program constants
\* enum AsyncifyState
NORMAL == 0
UNWIND == 1
REWIND == 2

\* The messages of the Errors the host throws.
ErrUtxoOnly == "available in UTXO context only"
ErrCoordOnly == "available in Coordination context only"
ErrInvalidHandle == "Invalid UTXO handle"
ErrSizeMismatch == "resume_arg size mismatch"
ErrBadTokenHandle == "bad token handle to burn"
ErrTrap == "wasm trap"
ErrBadContext == "bad context"
ErrBadBurnFn == "bad burnFn"
ErrNoCode == "blah"
ErrLink == "LinkError: function import requires a callable"

ErrCannot(op) ==
    CASE op = "start" -> "Cannot start() in state"
      [] op = "resume" -> "Cannot resume() in state"
      [] op = "query" -> "Cannot query() in state"
      [] op = "mutate" -> "Cannot mutate() in state"
      [] op = "consume" -> "Cannot consume() in state"

Roles == {"coordination", "utxo", "token"}

\* The starstream_handle_* imports a coordination script declares, and the
\* indices of its __indirect_function_table it may pass as handler.
EffectNames == {"starstream_handle_MyEffect"}
FunctionPointers == {1}
NoHandler == [handler |-> 0, me |-> 0]
NoTokenRecord == [burnFn |-> <<>>, id |-> 0, amount |-> 0, intermediate |-> 0]

\* No coordination script of the example contract runs.
NoScript ==
    [pc |-> "none", entry |-> "", nft |-> 0, desired_supply |-> 0, owner |-> 0,
     nft_contract |-> 0, p |-> 0, i |-> 0]

\* The import through which a Utxo's code would raise the effect that the
\* handler import e handles.
EffectImport(e) ==
    CASE e = "starstream_handle_MyEffect" -> "starstream_effect_MyEffect"

\* The functions the host objects bound to a module provide.
Provided(module) ==
    CASE module = "env" ->
            {"abort", "starstream_log", "starstream_coordination_code",
             "starstream_this_code"}
      [] module = "starstream_utxo_env" -> {"starstream_yield"}
ImportModules == {"env", "starstream_utxo_env", "starstream_utxo", "starstream_token"}

VARIABLES
    nUtxos,               \* Utxo objects constructed so far (ids 1..nUtxos)
    nTokens,              \* Token objects constructed so far
    universeUtxos,        \* Universe.utxos
    known,                \* Utxo objects the embedding host holds a reference to
    inst,                 \* Utxo.#loaded: the UtxoInstance of each Utxo (id 0: none)
    nInstances,           \* UtxoInstance objects constructed per Utxo
    utxoTokens,           \* Utxo.tokens
    stack,                \* running wasm frames, innermost last
    cur,                  \* the Utxo whose code the innermost "utxo" frame runs
    curOp,                \* the UtxoInstance method that entered it
    handles,              \* CoordinationScriptInstance.utxos
    coordinationContext,  \* the module-level coordinationContext
    effectHandlers,       \* the module-level effectHandlers map
    tokens,               \* the Token objects: #burnFn, id, amount
    registry,             \* Universe.contractCode and the resolveCode calls in flight
    lastResult,           \* how the last host-level call ended
    lastCall,             \* the operation the last step performed
    pre,                  \* the Universe as it was when the transaction began
    txMinted,             \* tokens minted in the current transaction
    txBurned,             \* tokens burned in the current transaction
    pending,              \* intermediates handed out and not yet minted
    steps,                \* steps taken so far
    script                \* the coordination script that runs, and its locals

vars == <<nUtxos, nTokens, universeUtxos, known, inst, nInstances, utxoTokens,
          stack, cur, curOp, handles, coordinationContext, effectHandlers, tokens, registry, lastResult, lastCall,
          pre, txMinted, txBurned, pending, steps, script>>

\* ---------------------------------------------------------------- helpers
Top == IF stack = <<>> THEN "idle" ELSE stack[Len(stack)]
Pop(s) == SubSeq(s, 1, Len(s) - 1)

Zeros(n) == [i \in 1..n |-> 0]
Payloads == UNION {[1..n -> {0, 1}] : n \in 0..MaxLen}

NoInstance ==
    [id |-> 0, state |-> "unloaded", asyncify |-> NORMAL, memory |-> 0,
     resumeArg |-> <<>>, tokenTable |-> [h \in Handles |-> NoToken]]

\* A resume payload: present = FALSE is resume() without an argument.
Given(bytes) == [present |-> TRUE, bytes |-> bytes]
Absent == [present |-> FALSE, bytes |-> <<>>]
ByteLength(data) == IF data.present THEN Len(data.bytes) ELSE 0

\* The operation a step performed: who called what on which Utxo, the handle
\* and payload it passed (0 and Absent when it takes none), what it returned.
CallWith(op, role, target, ret, handle, arg) ==
    [op |-> op, role |-> role, target |-> target, ret |-> ret,
     handle |-> handle, arg |-> arg, fn |-> <<>>]
\* A call made through a named import.
Named(call, fn) == [call EXCEPT !.fn = fn]
Call(op, role, target, ret) == CallWith(op, role, target, ret, 0, Absent)
Ok(v) == [kind |-> "ok", error |-> "", value |-> v]
Failed(msg) == [kind |-> "error", error |-> msg, value |-> <<"none", 0>>]

\* Every action is one step of the bounded run.
Tick == steps < MaxSteps /\ steps' = steps + 1

\* An Error thrown by the host or a trap: nothing catches it, the host stack
\* unwinds to the embedding caller. Nothing is rolled back.
Throw(msg, call) ==
    /\ stack' = <<>>
    /\ cur' = NoUtxo
    /\ curOp' = "none"
    /\ lastResult' = Failed(msg)
    /\ lastCall' = call


\* ---------------------------------------------------------- import routing
\* A stub that returns instead of throwing.
FakeModuleSilent(message) == [kind |-> "fake", throws |-> FALSE, message |-> message]

FakeModule(message) == [kind |-> "fake", throws |-> TRUE, message |-> message]
RealModule(name) == [kind |-> name, throws |-> FALSE, message |-> ""]

\* ContractInstance.constructor: what each import module of an instance of
\* role `role` is bound to.
ImportBinding(role, module) ==
    CASE module = "env" -> RealModule("StarstreamEnv")
      [] module = "starstream_utxo_env" ->
            IF role = "utxo" THEN RealModule("UtxoEnv") ELSE FakeModule(ErrUtxoOnly)
      [] module = "starstream_utxo" ->
            IF role = "coordination" THEN RealModule("UtxoImport")
            ELSE FakeModule(ErrCoordOnly)
      [] module = "starstream_token" ->
            IF role = "utxo" THEN RealModule("TokenImport") ELSE FakeModule(ErrUtxoOnly)

\* The role table of the specification (section 4.2), used to state claims.
Forbidden(role, module) ==
    \/ module = "starstream_utxo_env" /\ role # "utxo"
    \/ module = "starstream_token" /\ role # "utxo"
    \/ module = "starstream_utxo" /\ role # "coordination"

\* ------------------------------------------------------------ Utxo objects
NewUtxoInstance(u) ==
    [id |-> nInstances[u] + 1, state |-> "not_started", asyncify |-> NORMAL,
     memory |-> 0, resumeArg |-> <<>>, tokenTable |-> [h \in Handles |-> NoToken]]

\* load() with = in place of ??=.
LoadAlwaysNew(u) == NewUtxoInstance(u)

\* Utxo.load: this.#loaded ??= new UtxoInstance(this)
Load(u) == IF inst[u].id # 0 THEN inst[u] ELSE NewUtxoInstance(u)

\* UtxoInstance.isAlive
InstanceIsAlive(i) == i.state # "returned"

\* Utxo.isAlive
UtxoIsAlive(u) == IF inst[u].id # 0 THEN InstanceIsAlive(inst[u]) ELSE FALSE

\* start() without its state check.
StartAllowedAlways(s) == TRUE

\* A state check that only refuses a returned activation.
MethodAllowedNotReturned(s) == s # "returned"

\* The state checks that open start() and resume()/query()/mutate()/consume().
StartAllowed(s) == s = "not_started"
MethodAllowed(s) == s = "yielded"

SetInst(u, i) ==
    /\ inst' = [inst EXCEPT ![u] = i]
    /\ nInstances' = [nInstances EXCEPT ![u] = IF i.id > @ THEN i.id ELSE @]

\* Control enters the wasm code of Utxo u on behalf of method op.
Enter(u, op, call) ==
    /\ stack' = Append(stack, "utxo")
    /\ cur' = u
    /\ curOp' = op
    /\ lastCall' = call
    /\ UNCHANGED lastResult

\* UtxoInstance.start, up to the call of the entry point in #raw_resume.
InstStart(u, op, call) ==
    LET i == Load(u) IN
    /\ SetInst(u, i)
    /\ IF ~StartAllowed(i.state)
       THEN Throw(ErrCannot("start"), call)
       ELSE Enter(u, op, call)

\* A size check that only refuses payloads longer than the view.
SizeMatchesAtMost(view, data) == ByteLength(data) <= Len(view)

\* resume: resume_arg.byteLength === (resume_data?.byteLength ?? 0)
SizeMatches(view, data) == Len(view) = ByteLength(data)

\* resume that leaves the view as the yield left it.
WriteResumeArgSkip(view, data) == view

\* resume: if (resume_data) resume_arg.set(resume_data)
WriteResumeArg(view, data) == IF data.present THEN data.bytes ELSE view

\* UtxoInstance.resume, up to the call of the entry point in #raw_resume.
InstResume(u, data, call) ==
    LET i == Load(u) IN
    IF ~MethodAllowed(i.state)
    THEN SetInst(u, i) /\ Throw(ErrCannot("resume"), call)
    ELSE IF ~SizeMatches(i.resumeArg, data)
    THEN SetInst(u, i) /\ Throw(ErrSizeMismatch, call)
    ELSE /\ SetInst(u, [i EXCEPT !.resumeArg = WriteResumeArg(@, data),
                                 !.asyncify = REWIND])
         /\ Enter(u, "resume", call)

\* UtxoInstance.query / mutate / consume, up to the call of the export.
InstMethod(u, op, call) ==
    LET i == Load(u) IN
    /\ SetInst(u, i)
    /\ IF ~MethodAllowed(i.state)
       THEN Throw(ErrCannot(op), call)
       ELSE Enter(u, op, call)

\* CoordinationScriptInstance.setUtxo with the handle randomU32() drew.
SetUtxo(tbl, h, u) == [tbl EXCEPT ![h] = u]

Least(S) == IF S = {} THEN {} ELSE {CHOOSE h \in S : \A g \in S : h <= g}

\* The handles randomU32() may give when an entry is added to table tbl (a
\* handle table or a token table; 0 marks a free key). Handles are opaque
\* numbers, compared only for equality: the draw hits a key of the table, or
\* a free handle that an earlier table used (old), or a free handle never
\* used; the least handle of each of the two free kinds stands for the kind.
\* The same set covers the handles a contract may pass to an import.
HandleChoices(tbl, old) ==
    LET used == {h \in Handles : tbl[h] # 0}
        free == Handles \ used
    IN  used \cup Least(free \cap old) \cup Least(free \ old)

\* The handle tables setUtxo can build for the Utxo inputs us, in order.
RECURSIVE SetUtxos(_, _, _)
SetUtxos(tbl, us, old) ==
    IF us = <<>> THEN {tbl}
    ELSE UNION {SetUtxos(SetUtxo(tbl, h, Head(us)), Tail(us), old) :
                    h \in HandleChoices(tbl, old)}

\* A lookup that falls back to a Utxo when the handle is not a key.
GetUtxoLenient(tbl, h) ==
    [found |-> TRUE, utxo |-> IF tbl[h] # NoUtxo THEN tbl[h] ELSE 1]

\* CoordinationScriptInstance.getUtxo: the Utxo under the handle, if any.
GetUtxo(tbl, h) == [found |-> tbl[h] # NoUtxo, utxo |-> tbl[h]]

EmptyTable == [h \in Handles |-> NoUtxo]
TableUtxos(tbl) == {tbl[h] : h \in Handles} \ {NoUtxo}
TableKeys(tbl) == {h \in Handles : tbl[h] # NoUtxo}

\* The handles given out by the coordination instances of the transactions
\* before the one that runs now or ran last.
OldHandles == pre.old
\* ... and before the one that begins now.
OldHandlesAtBegin == pre.old \cup TableKeys(handles)


\* ------------------------------------------- ContractCode and the registry
\* ContractCode.hash: the SHA-256 digest of the module's bytes.
Hash(code) == <<"sha-256", code>>

\* The contents a module file may have, and the ids callers pass to
\* resolveCode: a bare name, as the prototype's own driver does, or the digest
\* of a module. The file read is target/.../debug/{id}.wasm.
ModuleBytes == {"example_contract.wasm", "other.wasm"}
CodeIds == {<<"name", "example_contract">>, Hash("other.wasm")}

NoCode == [obj |-> 0, hash |-> <<>>, wasm |-> "null"]

\* ContractCode.load(wasm): a new object holding the digest and the bytes.
LoadCode(obj, wasm) == [obj |-> obj, hash |-> Hash(wasm), wasm |-> wasm]

\* asyncify() that builds a new object whatever #wasm is.
AsyncifyAlwaysNew(m, obj) == [obj |-> obj, hash |-> m.hash, wasm |-> "null"]

\* ContractCode.asyncify: a new object with the same hash and no bytes when
\* #wasm is set, the object itself otherwise. obj names the new object.
Asyncify(m, obj) ==
    IF m.wasm # "null" THEN [obj |-> obj, hash |-> m.hash, wasm |-> "null"] ELSE m

\* A resolveCode call: idle (not made), loading (past the miss, awaiting
\* readFile and ContractCode.load) or done.
IdleCall == [pc |-> "idle", id |-> <<>>]

\* The Universe after the driver's first `await universe.resolveCode(...)`.
LoadedRegistry ==
    [code |-> [id \in CodeIds |->
                  IF id = <<"name", "example_contract">>
                  THEN LoadCode(1, "example_contract.wasm") ELSE NoCode],
     calls |-> [c \in 1..MaxResolves |-> IdleCall],
     objects |-> 1,
     loads |-> [id \in CodeIds |-> IF id = <<"name", "example_contract">> THEN 1 ELSE 0],
     asy |-> <<>>]

\* Everything but the registry.
NonRegistry ==
    <<nUtxos, nTokens, universeUtxos, known, inst, nInstances, utxoTokens, stack,
      cur, curOp, handles, coordinationContext, effectHandlers, tokens,
      lastResult, pre, txMinted, txBurned, pending, script>>

\* Universe.resolveCode up to its first await: a hit returns the record, a
\* miss goes on to read the file. Also the un-awaited call in Utxo.constructor.
ResolveCodeCall(c, id, by) ==
    /\ Tick
    /\ registry.calls[c].pc = "idle"
    /\ \A b \in 1..(c - 1) : registry.calls[b].pc # "idle"
    /\ registry' = [registry EXCEPT !.calls[c] =
                       [pc |-> IF registry.code[id] # NoCode THEN "done" ELSE "loading",
                        id |-> id]]
    /\ lastCall' = Call("resolveCode", by, 0, 0)
    /\ UNCHANGED NonRegistry

\* resolveCode after its awaits: the file's bytes are loaded into a new
\* ContractCode, which is stored under the id the caller gave.
ResolveCodeLoaded(c, wasm) ==
    /\ Tick
    /\ registry.calls[c].pc = "loading"
    /\ registry.objects < MaxObjects
    /\ LET id == registry.calls[c].id IN
       registry' = [registry EXCEPT
                       !.code[id] = LoadCode(registry.objects + 1, wasm),
                       !.objects = @ + 1,
                       !.loads[id] = @ + 1,
                       !.calls[c].pc = "done"]
    /\ lastCall' = Call("loaded", "host", 0, 0)
    /\ UNCHANGED NonRegistry

\* UtxoInstance.constructor: getCodeSync(codeId).asyncify(), and asyncify()
\* again on its result. With `again` the record the calls start from is the
\* last record asyncify() returned instead of one of the registry.
AsyncifyTwice(id, again) ==
    /\ Tick
    /\ registry.objects + 2 <= MaxObjects
    /\ again => registry.asy # <<>>
    /\ IF ~again /\ registry.code[id] = NoCode
       THEN /\ Throw(ErrNoCode, Call("getCodeSync", "host", 0, 0))
            /\ UNCHANGED registry
       ELSE LET m == IF again THEN registry.asy[2] ELSE registry.code[id]
                am == Asyncify(m, registry.objects + 1)
                aam == Asyncify(am, registry.objects + 2)
            IN  /\ registry' = [registry EXCEPT
                                   !.asy = <<m, am, aam>>,
                                   !.objects = IF aam.obj > @ THEN aam.obj
                                               ELSE IF am.obj > @ THEN am.obj ELSE @]
                /\ lastCall' = Call("asyncify", "host", 0, IF again THEN <<>> ELSE id)
                /\ UNCHANGED <<stack, cur, curOp, lastResult>>
    /\ UNCHANGED <<nUtxos, nTokens, universeUtxos, known, inst, nInstances,
                   utxoTokens, handles, coordinationContext, effectHandlers,
                   tokens, pre, txMinted, txBurned, pending, script>>

\* -------------------------------------------------------------------- Init
Init ==
    /\ nUtxos = 0
    /\ nTokens = 0
    /\ universeUtxos = {}
    /\ known = {}
    /\ inst = [u \in UtxoIds |-> NoInstance]
    /\ nInstances = [u \in UtxoIds |-> 0]
    /\ utxoTokens = [u \in UtxoIds |-> {}]
    /\ stack = <<>>
    /\ cur = NoUtxo
    /\ curOp = "none"
    /\ handles = EmptyTable
    /\ coordinationContext = "null"
    /\ effectHandlers = [e \in EffectNames |-> NoHandler]
    /\ tokens = [t \in TokenIds |-> NoTokenRecord]
    /\ registry = LoadedRegistry
    /\ lastResult = [kind |-> "none", error |-> "", value |-> <<"none", 0>>]
    /\ lastCall = Call("init", "host", 0, 0)
    /\ pre = [utxos |-> {}, inst |-> [u \in UtxoIds |-> NoInstance],
              tokens |-> [u \in UtxoIds |-> {}], old |-> {}, inputs |-> {}, tx |-> 0]
    /\ txMinted = 0
    /\ txBurned = 0
    /\ pending = 0
    /\ steps = 0
    /\ script = NoScript

\* ------------------------------------------------ Universe.runTransaction
InputSeqs == UNION {[1..n -> known] : n \in 0..MaxInputs}

\* runTransaction up to the call of the coordination entry point: a fresh
\* CoordinationScriptInstance, a handle for every Utxo among the inputs, the
\* coordination context set.
BeginTx(inputs, tbl) ==
    /\ Tick
    /\ stack = <<>>
    /\ tbl \in SetUtxos(EmptyTable, inputs, OldHandlesAtBegin)
    /\ handles' = tbl
    /\ coordinationContext' = "coordination_code"
    /\ stack' = <<"coord">>
    /\ pre' = [utxos |-> universeUtxos, inst |-> inst, tokens |-> utxoTokens,
               old |-> OldHandlesAtBegin,
               inputs |-> {inputs[k] : k \in 1..Len(inputs)},
               tx |-> pre.tx + 1]
    /\ txMinted' = 0
    /\ txBurned' = 0
    /\ pending' = 0
    /\ lastResult' = [kind |-> "running", error |-> "", value |-> <<"none", 0>>]
    /\ lastCall' = Call("begin", "host", 0, 0)
    /\ UNCHANGED <<nUtxos, nTokens, universeUtxos, known, inst, nInstances,
                   utxoTokens, cur, curOp, effectHandlers, tokens, registry, script>>

\* A commit that makes the alive Utxos of the handle table the whole set.
CommitOnlyTable(tbl) == {u \in TableUtxos(tbl) : UtxoIsAlive(u)}

\* The "Update UTXO set" loop of runTransaction.
Commit(tbl) ==
    (universeUtxos \cup {u \in TableUtxos(tbl) : UtxoIsAlive(u)})
        \ {u \in TableUtxos(tbl) : ~UtxoIsAlive(u)}

\* What an entry point may return, as <<typeof, value>>: a number (i32, f32,
\* f64), a bigint (i64) that equals a key of the handle table, or undefined.
EntryResults(tbl) ==
    {<<"number", r>> : r \in {0} \cup HandleChoices(tbl, OldHandles)}
        \cup {<<"bigint", r>> : r \in Least({h \in Handles : tbl[h] # NoUtxo})}
        \cup {<<"undefined", 0>>}

\* A lookup of the result in the handle table whatever its type.
TxReturnValueAnyType(tbl, result) ==
    IF result[2] \in Handles /\ tbl[result[2]] # NoUtxo
    THEN <<"utxo", tbl[result[2]]>> ELSE <<"raw", result>>

\* The value runTransaction returns for the entry point's return value:
\* typeof result === 'number' && instance.utxos.has(result)
TxReturnValue(tbl, result) ==
    IF result[1] = "number" /\ result[2] \in Handles /\ tbl[result[2]] # NoUtxo
    THEN <<"utxo", tbl[result[2]]>> ELSE <<"raw", result>>

\* The coordination entry point returns `result`: the rest of runTransaction.
CoordReturn(result) ==
    /\ Tick
    /\ Top = "coord"
    /\ coordinationContext' = "null"
    /\ universeUtxos' = Commit(handles)
    /\ known' = known \cup Commit(handles)
                 \cup (IF TxReturnValue(handles, result)[1] = "utxo"
                       THEN {TxReturnValue(handles, result)[2]} ELSE {})
    /\ stack' = <<>>
    /\ lastResult' = Ok(TxReturnValue(handles, result))
    /\ lastCall' = Call("return", "coordination", 0, result)
    /\ UNCHANGED <<nUtxos, nTokens, inst, nInstances, utxoTokens, cur, curOp,
                   handles, effectHandlers, tokens, registry, pre, txMinted, txBurned, pending, script>>

\* The coordination code traps (unreachable, abort(), a missing export).
CoordTrap ==
    /\ Tick
    /\ Top = "coord"
    /\ Throw(ErrTrap, Call("trap", "coordination", 0, 0))
    /\ UNCHANGED <<nUtxos, nTokens, universeUtxos, known, inst, nInstances,
                   utxoTokens, handles, coordinationContext, effectHandlers, tokens, registry, pre, txMinted,
                   txBurned, pending, script>>

\* ------------------------------------- UtxoImport: starstream_utxo:{id}.*
\* starstream_handle_*: handler 0 deletes the entry of the import's name, any
\* other index stores a closure over the calling instance (me) and the index.
CoordHandle(e, handler) ==
    /\ Tick
    /\ Top = "coord"
    /\ ImportBinding("coordination", "starstream_utxo").kind = "UtxoImport"
    /\ effectHandlers' = [effectHandlers EXCEPT ![e] =
                             IF handler = 0 THEN NoHandler
                             ELSE [handler |-> handler, me |-> pre.tx]]
    /\ lastCall' = Call("handle", "coordination", 0, handler)
    /\ UNCHANGED <<nUtxos, nTokens, universeUtxos, known, inst, nInstances,
                   utxoTokens, stack, cur, curOp, handles, coordinationContext,
                   tokens, registry, lastResult, pre, txMinted, txBurned, pending, script>>

CoordCalls == Top = "coord" /\ ImportBinding("coordination", "starstream_utxo").kind = "UtxoImport"

\* starstream_new_*: new Utxo, load().start(args); setUtxo follows in UtxoExit.
CoordNew ==
    /\ Tick
    /\ CoordCalls
    /\ nUtxos < MaxUtxos
    /\ nUtxos' = nUtxos + 1
    /\ InstStart(nUtxos + 1, "new", Call("new", "coordination", nUtxos + 1, 0))
    /\ UNCHANGED <<nTokens, universeUtxos, known, utxoTokens, handles,
                   coordinationContext, effectHandlers, tokens, registry, pre, txMinted, txBurned, pending, script>>

\* starstream_new_* of a Utxo whose code imports, from `module`, the function
\* that raises the effect handled by e: load() constructs the UtxoInstance,
\* whose imports object has no such function, so WebAssembly.Instance throws
\* and #loaded stays unset.
CoordNewRaising(e, module) ==
    /\ Tick
    /\ CoordCalls
    /\ nUtxos < MaxUtxos
    /\ EffectImport(e) \notin Provided(module)
    /\ nUtxos' = nUtxos + 1
    /\ Throw(ErrLink, Call("new_raising", "coordination", nUtxos + 1, 0))
    /\ UNCHANGED <<nTokens, universeUtxos, known, inst, nInstances, utxoTokens,
                   handles, coordinationContext, effectHandlers, tokens, registry, pre, txMinted,
                   txBurned, pending, script>>

\* getUtxo(handle) failing, for any of the handle-taking imports.
CoordBadHandle(op, h) ==
    /\ Tick
    /\ CoordCalls
    /\ ~GetUtxo(handles, h).found
    /\ Throw(ErrInvalidHandle, CallWith(op, "coordination", NoUtxo, 0, h, Absent))
    /\ UNCHANGED <<nUtxos, nTokens, universeUtxos, known, inst, nInstances,
                   utxoTokens, handles, coordinationContext, effectHandlers, tokens, registry, pre, txMinted,
                   txBurned, pending, script>>

\* starstream_resume_*
CoordResume(h, bytes) ==
    /\ Tick
    /\ CoordCalls
    /\ GetUtxo(handles, h).found
    /\ InstResume(GetUtxo(handles, h).utxo, Given(bytes),
                  CallWith("resume", "coordination", GetUtxo(handles, h).utxo, 0, h,
                           Given(bytes)))
    /\ UNCHANGED <<nUtxos, nTokens, universeUtxos, known, utxoTokens, handles,
                   coordinationContext, effectHandlers, tokens, registry, pre, txMinted, txBurned, pending, script>>

\* starstream_query_*, starstream_mutate_*, starstream_consume_*
CoordMethod(op, h) ==
    /\ Tick
    /\ CoordCalls
    /\ GetUtxo(handles, h).found
    /\ InstMethod(GetUtxo(handles, h).utxo, op,
                  CallWith(op, "coordination", GetUtxo(handles, h).utxo, 0, h, Absent))
    /\ UNCHANGED <<nUtxos, nTokens, universeUtxos, known, utxoTokens, handles,
                   coordinationContext, effectHandlers, tokens, registry, pre, txMinted, txBurned, pending, script>>

\* starstream_status_*: me.getUtxo(handle).isAlive()
CoordStatus(h) ==
    /\ Tick
    /\ CoordCalls
    /\ GetUtxo(handles, h).found
    /\ lastCall' = CallWith("status", "coordination", GetUtxo(handles, h).utxo,
                            IF UtxoIsAlive(GetUtxo(handles, h).utxo) THEN 1 ELSE 0,
                            h, Absent)
    /\ UNCHANGED <<nUtxos, nTokens, universeUtxos, known, inst, nInstances,
                   utxoTokens, stack, cur, curOp, handles, coordinationContext, effectHandlers, tokens, registry,
                   lastResult, pre, txMinted, txBurned, pending, script>>


\* ------------------------------------------------ code running in a Utxo
UtxoRuns == Top = "utxo" /\ inst[cur].asyncify = NORMAL

\* UtxoEnv.starstream_yield: first entry (NORMAL) records the yielded views
\* and starts the unwind; the re-entry during a rewind stops the rewind.
UtxoYield(n) ==
    /\ Tick
    /\ Top = "utxo"
    /\ ImportBinding("utxo", "starstream_utxo_env").kind = "UtxoEnv"
    /\ inst[cur].asyncify # UNWIND
    /\ inst[cur].asyncify = REWIND => n = Len(inst[cur].resumeArg)
    /\ IF inst[cur].asyncify = NORMAL
       THEN inst' = [inst EXCEPT ![cur] = [@ EXCEPT !.state = "yielded",
                                                    !.resumeArg = Zeros(n),
                                                    !.asyncify = UNWIND]]
       ELSE inst' = [inst EXCEPT ![cur] = [@ EXCEPT !.asyncify = NORMAL]]
    /\ lastCall' = Call("yield", "utxo", cur, 0)
    /\ UNCHANGED <<nUtxos, nTokens, universeUtxos, known, nInstances, utxoTokens,
                   stack, cur, curOp, handles, coordinationContext, effectHandlers, tokens, registry, lastResult,
                   pre, txMinted, txBurned, pending, script>>

\* The Utxo's code writes its own linear memory.
UtxoStore(v) ==
    /\ Tick
    /\ UtxoRuns
    /\ v # inst[cur].memory
    /\ inst' = [inst EXCEPT ![cur] = [@ EXCEPT !.memory = v]]
    /\ lastCall' = Call("store", "utxo", cur, 0)
    /\ UNCHANGED <<nUtxos, nTokens, universeUtxos, known, nInstances, utxoTokens,
                   stack, cur, curOp, handles, coordinationContext, effectHandlers, tokens, registry, lastResult,
                   pre, txMinted, txBurned, pending, script>>

\* StarNftMint::prepare_to_mint, reached through a starstream_mutate_* call:
\* supply += 1 and an intermediate goes back to the caller.
UtxoPrepareToMint ==
    /\ Tick
    /\ UtxoRuns
    /\ curOp = "mutate"
    /\ inst[cur].memory < MaxMem
    /\ inst' = [inst EXCEPT ![cur] = [@ EXCEPT !.memory = @ + 1]]
    /\ pending' = pending + 1
    /\ lastCall' = Call("prepare_to_mint", "utxo", cur, 0)
    /\ UNCHANGED <<nUtxos, nTokens, universeUtxos, known, nInstances, utxoTokens,
                   stack, cur, curOp, handles, coordinationContext, effectHandlers, tokens, registry, lastResult,
                   pre, txMinted, txBurned, script>>

\* The mint imports of the token module, and the burn imports with them.
\* Import names of the token module, as <<prefix, rest>>: the mint function the
\* token contract exports, and the burn imports a Utxo module may declare.
MintFns == {<<"starstream_mint_", "StarNft">>}
BurnFns == {<<"starstream_burn_", "StarNft">>, <<"starstream_burn_", "Other">>}

\* Token.constructor: mintFn.replace(/^starstream_mint_/, "starstream_burn_")
BurnFnOf(mintFn) ==
    IF mintFn[1] = "starstream_mint_" THEN <<"starstream_burn_", mintFn[2]>> ELSE mintFn

\* The token contract's mint function: the TokenStorage it writes at
\* returnAddr for the intermediate it is given.
TokenStorage(i) == [id |-> i, amount |-> 1]

\* Token.constructor: [this.id, this.amount] read back from the instance.
\* intermediate remembers the mint argument; the code keeps no such field.
NewToken(mintFn, i) ==
    [burnFn |-> BurnFnOf(mintFn), id |-> TokenStorage(i).id,
     amount |-> TokenStorage(i).amount, intermediate |-> i]

\* A burn that accepts any burn import.
BurnFnMatchesAny(token, burnFn) == TRUE

\* Token.burn: burnFn === this.#burnFn
BurnFnMatches(token, burnFn) == burnFn = token.burnFn

\* A burn that passes the amount for both arguments.
BurnArgsAmountTwice(token) == <<token.amount, token.amount>>

\* Token.burn: the arguments of the burn function, (this.id, this.amount)
BurnArgs(token) == <<token.id, token.amount>>

\* The token contract's burn function: the intermediate it returns for the
\* (id, amount) it is given.
BurnResult(args) == args[1]

\* The intermediates a mint may be given. The host copies a token's id and
\* never inspects it, so the ids of different tokens are taken different: the
\* least id no token has yet, and any id once every id is in use.
MintArgs ==
    LET used == {tokens[t].id : t \in 1..nTokens}
        free == (0..MaxMem) \ used
    IN  IF free = {} THEN used ELSE Least(free)

\* A mint that puts the token in the set of every Utxo.
AttachToAll(held, u, t) == [v \in UtxoIds |-> held[v] \cup {t}]

\* me.utxo.tokens.add(token)
Attach(held, u, t) == [held EXCEPT ![u] = @ \cup {t}]

\* TokenImport starstream_mint_*: a handle from randomU32, a new Token, the
\* handle recorded in #tokens, the token added to the Utxo's set. fromInt says
\* whether the minted value was an intermediate the caller held.
UtxoMint(h, fromInt, mintFn, i) ==
    /\ Tick
    /\ UtxoRuns
    /\ ImportBinding("utxo", "starstream_token").kind = "TokenImport"
    /\ nTokens < MaxTokens
    /\ h \in HandleChoices(inst[cur].tokenTable, {})
    /\ i \in MintArgs
    /\ fromInt => pending > 0
    /\ nTokens' = nTokens + 1
    /\ inst' = [inst EXCEPT ![cur] = [@ EXCEPT !.tokenTable[h] = nTokens + 1]]
    /\ utxoTokens' = Attach(utxoTokens, cur, nTokens + 1)
    /\ txMinted' = txMinted + 1
    /\ pending' = IF fromInt THEN pending - 1 ELSE pending
    /\ tokens' = [tokens EXCEPT ![nTokens + 1] = NewToken(mintFn, i)]
    /\ lastCall' = Named(CallWith("mint", "utxo", cur, h, h, Given(<<i>>)), mintFn)
    /\ UNCHANGED <<nUtxos, universeUtxos, known, nInstances, stack, cur, curOp,
                   handles, coordinationContext, effectHandlers, registry,
                   lastResult, pre, txBurned, script>>

\* TokenImport starstream_burn_*: the handle looked up in #tokens, the token
\* burned and deleted from the Utxo's set; #tokens keeps its entry.
UtxoBurn(h, burnFn) ==
    /\ Tick
    /\ UtxoRuns
    /\ ImportBinding("utxo", "starstream_token").kind = "TokenImport"
    /\ h \in HandleChoices(inst[cur].tokenTable, {})
    /\ IF inst[cur].tokenTable[h] = NoToken
       THEN /\ Throw(ErrBadTokenHandle, CallWith("burn", "utxo", cur, 0, h, Absent))
            /\ UNCHANGED <<utxoTokens, txBurned>>
       ELSE LET t == inst[cur].tokenTable[h] IN
            IF ~BurnFnMatches(tokens[t], burnFn)
            THEN /\ Throw(ErrBadBurnFn,
                          Named(CallWith("burn", "utxo", cur, 0, h, Absent), burnFn))
                 /\ UNCHANGED <<utxoTokens, txBurned>>
            ELSE /\ utxoTokens' = [utxoTokens EXCEPT ![cur] = @ \ {t}]
                 /\ txBurned' = txBurned + 1
                 /\ lastCall' = Named(CallWith("burn", "utxo", cur,
                                               BurnResult(BurnArgs(tokens[t])),
                                               h, Given(BurnArgs(tokens[t]))), burnFn)
                 /\ UNCHANGED <<stack, cur, curOp, lastResult>>
    /\ UNCHANGED <<nUtxos, nTokens, universeUtxos, known, inst, nInstances,
                   handles, coordinationContext, effectHandlers, tokens, registry, pre, txMinted, pending, script>>

\* The Utxo's code traps.
UtxoTrap ==
    /\ Tick
    /\ UtxoRuns
    /\ Throw(ErrTrap, Call("trap", "utxo", cur, 0))
    /\ UNCHANGED <<nUtxos, nTokens, universeUtxos, known, inst, nInstances,
                   utxoTokens, handles, coordinationContext, effectHandlers, tokens, registry, pre, txMinted,
                   txBurned, pending, script>>

\* #raw_resume forgetting to record the normal exit.
RawResumeReturnKeepState(i) ==
    IF i.asyncify = NORMAL THEN <<i, 0>> ELSE <<[i EXCEPT !.asyncify = NORMAL], 1>>

\* #raw_resume after the entry point came back: NORMAL means it ran to its
\* end, otherwise the unwind is stopped. [instance, what start/resume returns]
RawResumeReturn(i) ==
    IF i.asyncify = NORMAL
    THEN <<[i EXCEPT !.state = "returned", !.resumeArg = <<>>], 0>>
    ELSE <<[i EXCEPT !.asyncify = NORMAL], 1>>

\* A mutate that spends the activation as consume does.
AfterCallMutateConsumes(op, i) ==
    CASE op \in {"new", "start", "resume"} -> RawResumeReturn(i)
      [] op = "query" -> <<i, 0>>
      [] op \in {"mutate", "consume"} ->
            <<[i EXCEPT !.state = "consumed", !.resumeArg = <<>>], 0>>

\* What the method that entered the Utxo does once the wasm call came back.
AfterCall(op, i) ==
    CASE op \in {"new", "start", "resume"} -> RawResumeReturn(i)
      [] op \in {"query", "mutate"} -> <<i, 0>>
      [] op = "consume" -> <<[i EXCEPT !.state = "consumed", !.resumeArg = <<>>], 0>>

\* The wasm call into the Utxo comes back to the host (the function returned,
\* or the stack has unwound after a yield), and the calling method finishes.
\* For starstream_new_* the import then registers the Utxo under handle h.
UtxoExit(h) ==
    /\ Tick
    /\ Top = "utxo"
    /\ inst[cur].asyncify # REWIND
    /\ curOp # "new" => \A g \in HandleChoices(handles, OldHandles) : h <= g
    /\ inst' = [inst EXCEPT ![cur] = AfterCall(curOp, @)[1]]
    /\ stack' = Pop(stack)
    /\ handles' = IF curOp = "new" THEN SetUtxo(handles, h, cur) ELSE handles
    /\ lastResult' = IF Pop(stack) = <<>>
                     THEN Ok(<<"raw", AfterCall(curOp, inst[cur])[2]>>) ELSE lastResult
    /\ lastCall' = Call("exit", curOp, cur, AfterCall(curOp, inst[cur])[2])
    /\ cur' = NoUtxo
    /\ curOp' = "none"
    /\ UNCHANGED <<nUtxos, nTokens, universeUtxos, known, nInstances, utxoTokens,
                   coordinationContext, effectHandlers, tokens, registry, pre, txMinted, txBurned, pending, script>>

\* ------------------------------------------- imports bound to fakeModule
\* Which role's code is running: a token instance runs only inside a mint or
\* burn import called by the running Utxo.
RoleRunning(role) ==
    CASE role = "coordination" -> Top = "coord"
      [] role = "utxo" -> UtxoRuns
      [] role = "token" -> UtxoRuns /\ ImportBinding("utxo", "starstream_token").kind = "TokenImport"

\* An instance of `role` calls an import of `module` that its constructor
\* bound to a fakeModule stub.
InvokeFake(role, module) ==
    /\ Tick
    /\ RoleRunning(role)
    /\ ImportBinding(role, module).kind = "fake"
    /\ IF ImportBinding(role, module).throws
       THEN Throw(ImportBinding(role, module).message, Call(module, role, 0, 0))
       ELSE lastCall' = Call(module, role, 0, 0) /\ UNCHANGED <<stack, cur, curOp, lastResult>>
    /\ UNCHANGED <<nUtxos, nTokens, universeUtxos, known, inst, nInstances,
                   utxoTokens, handles, coordinationContext, effectHandlers, tokens, registry, pre,
                   txMinted, txBurned, pending, script>>

\* ------------------------------------------------- StarstreamEnv: env.*
\* The ContractCode an instance of each role was built from; the coordination
\* script's is the one runTransaction puts in the coordination context.
CodeOf(role) ==
    CASE role = "coordination" -> "coordination_code"
      [] role = "utxo" -> "utxo_code"
      [] role = "token" -> "token_code"

\* What starstream_coordination_code writes at return_addr: this.me.code.hash
CoordinationCodeWritten(role) == Hash(CodeOf(role))

\* What starstream_this_code writes at return_addr: this.me.code.hash
ThisCodeWritten(role) == Hash(CodeOf(role))

\* env.starstream_coordination_code(return_addr)
EnvCoordinationCode(role) ==
    /\ Tick
    /\ RoleRunning(role)
    /\ ImportBinding(role, "env").kind = "StarstreamEnv"
    /\ IF coordinationContext = "null"
       THEN Throw(ErrBadContext, Call("starstream_coordination_code", role, 0, <<>>))
       ELSE /\ lastCall' = Call("starstream_coordination_code", role, 0,
                                CoordinationCodeWritten(role))
            /\ UNCHANGED <<stack, cur, curOp, lastResult>>
    /\ UNCHANGED <<nUtxos, nTokens, universeUtxos, known, inst, nInstances,
                   utxoTokens, handles, coordinationContext, effectHandlers, tokens, registry, pre,
                   txMinted, txBurned, pending, script>>

\* env.starstream_this_code(return_addr)
EnvThisCode(role) ==
    /\ Tick
    /\ RoleRunning(role)
    /\ ImportBinding(role, "env").kind = "StarstreamEnv"
    /\ lastCall' = Call("starstream_this_code", role, 0, ThisCodeWritten(role))
    /\ UNCHANGED <<nUtxos, nTokens, universeUtxos, known, inst, nInstances,
                   utxoTokens, stack, cur, curOp, handles, coordinationContext, effectHandlers, tokens, registry,
                   lastResult, pre, txMinted, txBurned, pending, script>>

\* -------------------------------------------------------------------- Next
HandleOps == {"resume", "query", "mutate", "consume", "status"}
Methods == {"query", "mutate", "consume"}

Next ==
    \/ /\ stack = <<>>
       /\ \E inputs \in InputSeqs :
             \E tbl \in SetUtxos(EmptyTable, inputs, OldHandlesAtBegin) :
                 BeginTx(inputs, tbl)
    \/ \E r \in EntryResults(handles) : CoordReturn(r)
    \/ CoordTrap
    \/ CoordNew
    \/ \E op \in HandleOps, h \in HandleChoices(handles, OldHandles) : CoordBadHandle(op, h)
    \/ \E h \in HandleChoices(handles, OldHandles), bytes \in Payloads : CoordResume(h, bytes)
    \/ \E op \in Methods, h \in HandleChoices(handles, OldHandles) : CoordMethod(op, h)
    \/ \E h \in HandleChoices(handles, OldHandles) : CoordStatus(h)
    \/ \E e \in EffectNames, handler \in {0} \cup FunctionPointers : CoordHandle(e, handler)
    \/ \E e \in EffectNames, module \in {"env", "starstream_utxo_env"} :
          CoordNewRaising(e, module)
    \/ \E n \in 0..MaxLen : UtxoYield(n)
    \/ \E v \in 0..MaxMem : UtxoStore(v)
    \/ UtxoPrepareToMint
    \/ \E h \in Handles, fromInt \in BOOLEAN, mintFn \in MintFns, i \in 0..MaxMem :
          UtxoMint(h, fromInt, mintFn, i)
    \/ \E h \in Handles, burnFn \in BurnFns : UtxoBurn(h, burnFn)
    \/ UtxoTrap
    \/ \E h \in HandleChoices(handles, OldHandles) : UtxoExit(h)
    \/ \E role \in Roles, module \in ImportModules : InvokeFake(role, module)
    \/ \E role \in Roles : EnvCoordinationCode(role)
    \/ \E role \in Roles : EnvThisCode(role)

Spec == Init /\ [][Next]_vars


\* --------------------------------- the classes driven by the embedding host
\* new Utxo(universe, codeId, entryPoint) by the embedding host.
ApiNewUtxo ==
    /\ Tick
    /\ stack = <<>>
    /\ nUtxos < MaxUtxos
    /\ nUtxos' = nUtxos + 1
    /\ known' = known \cup {nUtxos + 1}
    /\ lastCall' = Call("new Utxo", "host", nUtxos + 1, 0)
    /\ UNCHANGED <<nTokens, universeUtxos, inst, nInstances, utxoTokens, stack,
                   cur, curOp, handles, coordinationContext, effectHandlers, tokens, registry, lastResult, pre,
                   txMinted, txBurned, pending, script>>

\* utxo.load().start(...)
ApiStart(u) ==
    /\ Tick
    /\ stack = <<>>
    /\ u \in known
    /\ InstStart(u, "start", Call("start", "host", u, 0))
    /\ UNCHANGED <<nUtxos, nTokens, universeUtxos, known, utxoTokens, handles,
                   coordinationContext, effectHandlers, tokens, registry, pre, txMinted, txBurned, pending, script>>

\* utxo.load().resume(data?)
ApiResume(u, data) ==
    /\ Tick
    /\ stack = <<>>
    /\ u \in known
    /\ InstResume(u, data, CallWith("resume", "host", u, 0, 0, data))
    /\ UNCHANGED <<nUtxos, nTokens, universeUtxos, known, utxoTokens, handles,
                   coordinationContext, effectHandlers, tokens, registry, pre, txMinted, txBurned, pending, script>>

\* utxo.load().query(name) / mutate(name) / consume(name)
ApiMethod(op, u) ==
    /\ Tick
    /\ stack = <<>>
    /\ u \in known
    /\ InstMethod(u, op, Call(op, "host", u, 0))
    /\ UNCHANGED <<nUtxos, nTokens, universeUtxos, known, utxoTokens, handles,
                   coordinationContext, effectHandlers, tokens, registry, pre, txMinted, txBurned, pending, script>>

ResumeData == {Absent} \cup {Given(b) : b \in Payloads}

NextApi ==
    \/ ApiNewUtxo
    \/ \E u \in UtxoIds : ApiStart(u)
    \/ \E u \in UtxoIds, data \in ResumeData : ApiResume(u, data)
    \/ \E op \in Methods, u \in UtxoIds : ApiMethod(op, u)
    \/ \E n \in 0..MaxLen : UtxoYield(n)
    \/ \E v \in 0..MaxMem : UtxoStore(v)
    \/ UtxoPrepareToMint
    \/ \E h \in Handles, fromInt \in BOOLEAN, mintFn \in MintFns, i \in 0..MaxMem :
          UtxoMint(h, fromInt, mintFn, i)
    \/ \E h \in Handles, burnFn \in BurnFns : UtxoBurn(h, burnFn)
    \/ UtxoTrap
    \/ \E h \in HandleChoices(handles, OldHandles) : UtxoExit(h)
    \/ \E role \in {"utxo", "token"}, module \in ImportModules : InvokeFake(role, module)
    \/ \E role \in {"utxo", "token"} : EnvCoordinationCode(role)
    \/ \E role \in {"utxo", "token"} : EnvThisCode(role)

\* The UtxoInstance and Utxo classes under any sequence of method calls.
SpecApi == Init /\ [][NextApi]_vars


\* ------------------------------------ a CoordinationScriptInstance alone
\* instance.setUtxo(utxo), as runTransaction calls it for each Utxo among its
\* inputs and starstream_new_* for the Utxo it made: the handle randomU32()
\* drew is set in the table and returned.
ApiSetUtxo(u, h) ==
    /\ Tick
    /\ stack = <<>>
    /\ u \in known
    /\ h \in HandleChoices(handles, {})
    /\ handles' = SetUtxo(handles, h, u)
    /\ lastCall' = CallWith("setUtxo", "host", u, h, h, Absent)
    /\ UNCHANGED <<nUtxos, nTokens, universeUtxos, known, inst, nInstances,
                   utxoTokens, stack, cur, curOp, coordinationContext,
                   effectHandlers, tokens, registry, lastResult, pre, txMinted,
                   txBurned, pending, script>>

\* instance.getUtxo(handle)
ApiGetUtxo(h) ==
    /\ Tick
    /\ stack = <<>>
    /\ h \in HandleChoices(handles, {})
    /\ IF GetUtxo(handles, h).found
       THEN /\ lastCall' = CallWith("getUtxo", "host", GetUtxo(handles, h).utxo, 0, h, Absent)
            /\ lastResult' = Ok(<<"utxo", GetUtxo(handles, h).utxo>>)
            /\ UNCHANGED <<stack, cur, curOp>>
       ELSE Throw(ErrInvalidHandle, CallWith("getUtxo", "host", NoUtxo, 0, h, Absent))
    /\ UNCHANGED <<nUtxos, nTokens, universeUtxos, known, inst, nInstances,
                   utxoTokens, handles, coordinationContext, effectHandlers,
                   tokens, registry, pre, txMinted, txBurned, pending, script>>

NextHandles ==
    \/ ApiNewUtxo
    \/ \E u \in UtxoIds, h \in Handles : ApiSetUtxo(u, h)
    \/ \E h \in Handles : ApiGetUtxo(h)

\* The handle table of one CoordinationScriptInstance under any sequence of
\* setUtxo and getUtxo calls.
SpecHandles == Init /\ [][NextHandles]_vars

\* ----------------------------- the example contract's coordination scripts
\* The driver's "new_nft" transaction and the star_nft_mint_up_to script of
\* the status report, run on the host one import call at a time. The wasm
\* code of the Utxos is deterministic, so a call into a Utxo runs to its
\* return within the step of the import that made it. The memory word of a
\* StarNftMint is its supply, the word of a PayToPublicKeyHash its owner.
ScriptTick == steps < MaxScriptSteps /\ steps' = steps + 1

\* runTransaction(coordination, entry, inputs) up to the entry point, for the
\* Utxo inputs us and the handle table tbl that setUtxo built for them.
ScriptBegin(entry, us, tbl, locals) ==
    /\ ScriptTick
    /\ stack = <<>>
    /\ tbl \in SetUtxos(EmptyTable, us, OldHandlesAtBegin)
    /\ handles' = tbl
    /\ coordinationContext' = "coordination_code"
    /\ stack' = <<"coord">>
    /\ pre' = [utxos |-> universeUtxos, inst |-> inst, tokens |-> utxoTokens,
               old |-> OldHandlesAtBegin,
               inputs |-> {us[k] : k \in 1..Len(us)},
               tx |-> pre.tx + 1]
    /\ txMinted' = 0
    /\ txBurned' = 0
    /\ pending' = 0
    /\ lastResult' = [kind |-> "running", error |-> "", value |-> <<"none", 0>>]
    /\ lastCall' = Call("begin", "host", 0, 0)
    /\ script' = [locals EXCEPT !.entry = entry]
    /\ UNCHANGED <<nUtxos, nTokens, universeUtxos, known, inst, nInstances,
                   utxoTokens, cur, curOp, effectHandlers, tokens, registry>>

\* runTransaction(exampleCoordination, "new_nft")
ScriptBeginNewNft ==
    /\ script.pc = "none"
    /\ ScriptBegin("new_nft", <<>>, EmptyTable, [script EXCEPT !.pc = "new"])

\* runTransaction(exampleContract, "star_nft_mint_up_to", [nft_contract,
\* desired_supply, owner]) on the Utxo "new_nft" returned, whose supply is at
\* most desired_supply.
ScriptBeginMintUpTo(desired_supply, owner, tbl) ==
    /\ script.pc = "idle"
    /\ inst[script.nft].memory <= desired_supply
    /\ ScriptBegin("star_nft_mint_up_to", <<script.nft>>, tbl,
                   [script EXCEPT !.pc = "get_supply",
                                  !.desired_supply = desired_supply,
                                  !.owner = owner,
                                  !.nft_contract =
                                      CHOOSE h \in Handles : tbl[h] = script.nft,
                                  !.p = 0, !.i = 0])

\* starstream_new_*: the Utxo constructed and started; its entry point stores
\* `word` and sleeps, so start() comes back after the unwind with the instance
\* yielded; setUtxo registers the Utxo under the handle h it drew.
ScriptNew(word, h, next) ==
    /\ ScriptTick
    /\ CoordCalls
    /\ nUtxos < MaxUtxos
    /\ h \in HandleChoices(handles, OldHandles)
    /\ nUtxos' = nUtxos + 1
    /\ SetInst(nUtxos + 1,
               RawResumeReturn([NewUtxoInstance(nUtxos + 1) EXCEPT
                                    !.state = "yielded", !.memory = word,
                                    !.resumeArg = Zeros(0),
                                    !.asyncify = UNWIND])[1])
    /\ handles' = SetUtxo(handles, h, nUtxos + 1)
    /\ lastCall' = CallWith("new", "coordination", nUtxos + 1, h, h, Absent)
    /\ script' = [script EXCEPT !.pc = next, !.p = h]
    /\ UNCHANGED <<nTokens, universeUtxos, known, utxoTokens, stack, cur, curOp,
                   coordinationContext, effectHandlers, tokens, registry,
                   lastResult, pre, txMinted, txBurned, pending>>

\* new_nft: StarNftMint::new, supply 0, asleep in its loop.
ScriptNewStarNftMint(h) ==
    /\ script.pc = "new"
    /\ script.entry = "new_nft"
    /\ ScriptNew(0, h, "return")

\* PayToPublicKeyHash::new(owner), asleep until someone spends it.
ScriptNewPayToPublicKeyHash(h) ==
    /\ script.pc = "new"
    /\ script.entry = "star_nft_mint_up_to"
    /\ ScriptNew(script.owner, h, "prepare_to_mint")

\* while nft_contract.get_supply() < desired_supply: starstream_query_* on
\* the Utxo under the handle, which returns the word at its yielded data.
ScriptGetSupply ==
    /\ ScriptTick
    /\ CoordCalls
    /\ script.pc = "get_supply"
    /\ LET u == GetUtxo(handles, script.nft_contract).utxo
           i == Load(u)
       IN  /\ MethodAllowed(i.state)
           /\ SetInst(u, AfterCall("query", i)[1])
           /\ lastCall' = CallWith("query", "coordination", u, i.memory,
                                   script.nft_contract, Absent)
           /\ script' = [script EXCEPT
                            !.pc = IF i.memory < script.desired_supply
                                   THEN "new" ELSE "return"]
    /\ UNCHANGED <<nUtxos, nTokens, universeUtxos, known, utxoTokens, stack, cur,
                   curOp, handles, coordinationContext, effectHandlers, tokens,
                   registry, lastResult, pre, txMinted, txBurned, pending>>

\* nft_contract.prepare_to_mint(): starstream_mutate_* on the Utxo under the
\* handle; self.supply += 1, and StarNftIntermediate { id: self.supply } goes
\* back to the script.
ScriptPrepareToMint ==
    /\ ScriptTick
    /\ CoordCalls
    /\ script.pc = "prepare_to_mint"
    /\ LET u == GetUtxo(handles, script.nft_contract).utxo
           i == Load(u)
       IN  /\ MethodAllowed(i.state)
           /\ i.memory < MaxMem
           /\ SetInst(u, AfterCall("mutate", [i EXCEPT !.memory = @ + 1])[1])
           /\ lastCall' = CallWith("mutate", "coordination", u, i.memory + 1,
                                   script.nft_contract, Absent)
           /\ script' = [script EXCEPT !.pc = "attach", !.i = i.memory + 1]
    /\ pending' = pending + 1
    /\ UNCHANGED <<nUtxos, nTokens, universeUtxos, known, utxoTokens, stack, cur,
                   curOp, handles, coordinationContext, effectHandlers, tokens,
                   registry, lastResult, pre, txMinted, txBurned>>

\* .attach(intermediate): starstream_mutate_* on the new Utxo, whose code
\* calls T::mint(i), the starstream_mint_StarNft import; the mint function
\* asserts coordination_code() == this_code() and the token, under the handle
\* h of its table, joins the Utxo's set.
ScriptAttach(h, mintFn) ==
    /\ ScriptTick
    /\ CoordCalls
    /\ script.pc = "attach"
    /\ nTokens < MaxTokens
    /\ CoordinationCodeWritten("token") = ThisCodeWritten("token")
    /\ LET u == GetUtxo(handles, script.p).utxo
           i == Load(u)
       IN  /\ MethodAllowed(i.state)
           /\ h \in HandleChoices(i.tokenTable, {})
           /\ SetInst(u, AfterCall("mutate",
                                   [i EXCEPT !.tokenTable[h] = nTokens + 1])[1])
           /\ utxoTokens' = Attach(utxoTokens, u, nTokens + 1)
           /\ lastCall' = Named(CallWith("mint", "utxo", u, h, h,
                                         Given(<<script.i>>)), mintFn)
    /\ nTokens' = nTokens + 1
    /\ tokens' = [tokens EXCEPT ![nTokens + 1] = NewToken(mintFn, script.i)]
    /\ txMinted' = txMinted + 1
    /\ pending' = pending - 1
    /\ script' = [script EXCEPT !.pc = "get_supply", !.i = 0]
    /\ UNCHANGED <<nUtxos, universeUtxos, known, stack, cur, curOp, handles,
                   coordinationContext, effectHandlers, registry, lastResult,
                   pre, txBurned>>

\* The entry point returns: new_nft the handle of the Utxo it made, which
\* runTransaction turns into the Utxo; star_nft_mint_up_to nothing.
ScriptReturn ==
    /\ ScriptTick
    /\ Top = "coord"
    /\ script.pc = "return"
    /\ LET result == IF script.entry = "new_nft"
                     THEN <<"number", script.p>> ELSE <<"undefined", 0>>
           value == TxReturnValue(handles, result)
       IN  /\ coordinationContext' = "null"
           /\ universeUtxos' = Commit(handles)
           /\ known' = known \cup Commit(handles)
                        \cup (IF value[1] = "utxo" THEN {value[2]} ELSE {})
           /\ stack' = <<>>
           /\ lastResult' = Ok(value)
           /\ lastCall' = Call("return", "coordination", 0, result)
           /\ script' = [script EXCEPT
                            !.pc = "idle",
                            !.nft = IF script.entry = "new_nft" THEN value[2] ELSE @]
    /\ UNCHANGED <<nUtxos, nTokens, inst, nInstances, utxoTokens, cur, curOp,
                   handles, effectHandlers, tokens, registry, pre, txMinted,
                   txBurned, pending>>

NextMintUpTo ==
    \/ ScriptBeginNewNft
    \/ \E h \in Handles : ScriptNewStarNftMint(h)
    \/ \E desired_supply \in 0..MaxMem, owner \in 0..MaxMem :
          \E tbl \in SetUtxos(EmptyTable, <<script.nft>>, OldHandlesAtBegin) :
              ScriptBeginMintUpTo(desired_supply, owner, tbl)
    \/ ScriptGetSupply
    \/ \E h \in Handles : ScriptNewPayToPublicKeyHash(h)
    \/ ScriptPrepareToMint
    \/ \E h \in Handles, mintFn \in MintFns : ScriptAttach(h, mintFn)
    \/ ScriptReturn

\* The driver's new_nft transaction and then any number of
\* star_nft_mint_up_to transactions on the mint contract it returned.
SpecMintUpTo == Init /\ [][NextMintUpTo]_vars

\* ------------------------------------------------------ what the host writes
\* The lines a step writes with console.log, the host's only output: 'CALL' and
\* ' ->' in runTransaction, 'NEW' in starstream_new_*, 'HANDLER =' in
\* starstream_handle_*. No other import or method writes anything, and the
\* host keeps no list of the calls it served.
ConsoleLog(call) ==
    CASE call.op = "begin" -> <<"CALL">>
      [] call.op = "return" -> <<" ->">>
      [] call.op \in {"new", "new_raising"} -> <<"NEW">>
      [] call.op = "handle" -> <<"HANDLER =">>
      [] OTHER -> <<>>

\* ------------------------------------------------- the code registry alone
NextRegistry ==
    \/ \E c \in 1..MaxResolves, id \in CodeIds, by \in {"host", "Utxo.constructor"} :
          ResolveCodeCall(c, id, by)
    \/ \E c \in 1..MaxResolves, wasm \in ModuleBytes : ResolveCodeLoaded(c, wasm)
    \/ \E id \in CodeIds, again \in BOOLEAN : AsyncifyTwice(id, again)

\* Universe.contractCode under any interleaving of resolveCode calls.
SpecRegistry == Init /\ [][NextRegistry]_vars


\* ============================================================== properties
Terminal == {"returned", "consumed"}
WrongContext == {ErrUtxoOnly, ErrCoordOnly}
TxFailed == stack = <<>> /\ lastResult.kind = "error"
TxSucceeded == stack = <<>> /\ lastResult.kind = "ok" /\ lastCall.op = "return"

\* Number of (Utxo, token) attachments among the Utxos us.
Attached(us, held) == Cardinality({<<u, t>> \in us \X TokenIds : t \in held[u]})

\* C1 (atomicity): after a failed runTransaction the Universe equals the
\* Universe before it: the same Utxo set, and for each of them the same
\* lifecycle state, memory and token set.
C1_Atomicity ==
    TxFailed =>
        /\ universeUtxos = pre.utxos
        /\ \A u \in pre.utxos :
              /\ inst[u].state = pre.inst[u].state
              /\ inst[u].memory = pre.inst[u].memory
              /\ inst[u].resumeArg = pre.inst[u].resumeArg
              /\ utxoTokens[u] = pre.tokens[u]

\* C2 (commit): after a runTransaction that returned cleanly, every Utxo of the
\* handle table that is neither returned nor consumed is in the Universe, and
\* every returned or consumed one is not.
C2_Commit ==
    TxSucceeded =>
        \A u \in TableUtxos(handles) :
            IF inst[u].state \in Terminal
            THEN u \notin universeUtxos
            ELSE u \in universeUtxos

\* C3 (liveness predicate): isAlive() of an activation, and the value the
\* starstream_status_* import reports, is true iff the state is neither
\* returned nor consumed.
C3_IsAlive ==
    /\ \A u \in UtxoIds :
          inst[u].id # 0 => (InstanceIsAlive(inst[u]) <=> inst[u].state \notin Terminal)
    /\ (lastCall.op = "status" /\ lastCall.target # NoUtxo) =>
          (lastCall.ret = 1 <=> inst[lastCall.target].state \notin Terminal)

\* C4 (intermediate linearity): when the coordination entry point returns with
\* an intermediate not minted, the transaction fails, no Utxo it created is in
\* the Universe and no Utxo memory differs from before the transaction.
C4_IntermediateLinearity ==
    (stack = <<>> /\ lastCall.op = "return" /\ pending > 0) =>
        /\ lastResult.kind = "error"
        /\ universeUtxos \subseteq pre.utxos
        /\ \A u \in UtxoIds : inst[u].memory = pre.inst[u].memory

\* C5 (token conservation): after a successful transaction, mints minus burns
\* equals the change in the number of tokens attached to Utxos of the Universe,
\* and no token is attached to a returned or consumed Utxo.
C5_TokenConservation ==
    TxSucceeded =>
        /\ txMinted - txBurned =
              Attached(universeUtxos, utxoTokens) - Attached(pre.utxos, pre.tokens)
        /\ \A u \in UtxoIds : inst[u].state \in Terminal => utxoTokens[u] = {}

\* C6 (role isolation): every invocation, by an instance of some role, of an
\* import whose module that role forbids fails with a WrongContext error and
\* changes no Utxo, token, handle-table or Universe state.
C6_RoleIsolation ==
    [][(lastCall'.op \in ImportModules /\ Forbidden(lastCall'.role, lastCall'.op)) =>
          /\ stack' = <<>>
          /\ lastResult'.kind = "error"
          /\ lastResult'.error \in WrongContext
          /\ UNCHANGED <<nUtxos, nTokens, universeUtxos, inst, nInstances,
                         utxoTokens, handles>>]_vars

\* A Utxo called a coordination-only import and the call failed.
C6_Witness ==
    /\ lastCall = Call("starstream_utxo", "utxo", 0, 0)
    /\ lastResult.error = ErrCoordOnly

\* C7 (single activation): at most one UtxoInstance is ever constructed for a
\* Utxo, and load() on a loaded Utxo gives the activation it already has.
C7_SingleActivation ==
    /\ [](\A u \in UtxoIds : nInstances[u] <= 1 /\ inst[u].id <= 1)
    /\ [][\A u \in UtxoIds : inst[u].id # 0 => inst'[u].id = inst[u].id]_vars

\* A method was entered through load() on a Utxo that was loaded before.
C7_Witness ==
    /\ Top = "utxo"
    /\ curOp = "resume"
    /\ nInstances[cur] = 1
    /\ inst[cur].id = 1

\* The lifecycle state a method finds on the activation load() gives it.
StateFound(u) == IF inst[u].id = 0 THEN "not_started" ELSE inst[u].state

\* C8 (lifecycle guard): resume, query, mutate and consume on an activation
\* that is not yielded, and start on one that is not not_started, fail with the
\* method's "Cannot ...() in state" error and leave the lifecycle state as it was.
C8_LifecycleGuard ==
    [][(/\ lastCall'.role = "host"
        /\ \/ lastCall'.op \in {"resume", "query", "mutate", "consume"}
              /\ StateFound(lastCall'.target) # "yielded"
           \/ lastCall'.op = "start" /\ StateFound(lastCall'.target) # "not_started") =>
          /\ stack' = <<>>
          /\ lastResult'.kind = "error"
          /\ lastResult'.error = ErrCannot(lastCall'.op)
          /\ inst'[lastCall'.target].state = StateFound(lastCall'.target)]_vars

\* start() was refused on an activation that had already yielded.
C8_Witness ==
    /\ lastCall.op = "start"
    /\ lastResult.error = ErrCannot("start")
    /\ inst[lastCall.target].state = "yielded"

\* C9 (terminal states): an activation that is returned or consumed keeps that
\* state in every later step.
C9_TerminalStates ==
    [][\A u \in UtxoIds :
          inst[u].state \in Terminal => inst'[u].state = inst[u].state]_vars

\* mutate() was attempted on a consumed activation.
C9_Witness ==
    /\ lastCall.op = "mutate"
    /\ lastCall.target # NoUtxo
    /\ lastResult.kind = "error"
    /\ inst[lastCall.target].state = "consumed"

\* C10: when the entry point comes back from start without having yielded the
\* activation is returned and start reports false; resume on a returned
\* activation fails with "Cannot resume() in state".
C10_ReturnWithoutYield ==
    [][/\ (/\ Top = "utxo"
           /\ curOp \in {"new", "start"}
           /\ inst[cur].asyncify = NORMAL
           /\ lastCall'.op = "exit") =>
             (inst'[cur].state = "returned" /\ lastCall'.ret = 0)
       /\ (/\ lastCall'.op = "resume"
           /\ lastCall'.target # NoUtxo
           /\ inst[lastCall'.target].state = "returned") =>
             (/\ stack' = <<>>
              /\ lastResult'.kind = "error"
              /\ lastResult'.error = ErrCannot("resume")
              /\ inst'[lastCall'.target].state = "returned")]_vars

\* A Utxo created by starstream_new_* returned without yielding and a later
\* starstream_resume_* on its handle failed.
C10_Witness ==
    /\ lastCall.op = "resume"
    /\ lastCall.role = "coordination"
    /\ lastCall.target # NoUtxo
    /\ lastResult.error = ErrCannot("resume")
    /\ inst[lastCall.target].state = "returned"

C12_ResumeYieldParity ==
    [][/\ (/\ lastCall'.op = "resume"
           /\ lastCall'.arg.present
           /\ stack' # <<>>) =>
             /\ inst'[lastCall'.target].resumeArg = lastCall'.arg.bytes
             /\ inst'[lastCall'.target].asyncify = REWIND
       /\ (/\ Top = "utxo"
           /\ inst[cur].asyncify = REWIND
           /\ lastCall'.op = "yield") =>
             /\ lastCall.op = "resume"
             /\ lastCall.arg.present => inst'[cur].resumeArg = lastCall.arg.bytes]_vars

\* The yield paired with a starstream_resume_* of the byte 1 has returned.
C12_Witness ==
    /\ lastCall.op = "yield"
    /\ Top = "utxo"
    /\ curOp = "resume"
    /\ inst[cur].asyncify = NORMAL
    /\ inst[cur].resumeArg = <<1>>

\* C13 (not quiescent): when the export called by query, mutate or consume
\* comes back with the activation's asyncify state other than NORMAL, the call
\* has failed.
C13_NotQuiescent ==
    (/\ lastCall.op = "exit"
     /\ lastCall.role \in Methods
     /\ inst[lastCall.target].asyncify # NORMAL) =>
        lastResult.kind = "error"

\* C14 (handle locality): while a transaction runs, no handle given out by the
\* coordination instance of an earlier transaction is a key of its handle
\* table, whatever handles were drawn.
C14_HandleLocality ==
    stack # <<>> => \A h \in OldHandles : handles[h] = NoUtxo

\* C15 (unknown handle): a starstream_resume_*, query, mutate, consume or
\* status call whose handle is not a key of the handle table fails with
\* "Invalid UTXO handle" and loads, resumes and changes no Utxo.
C15_UnknownHandle ==
    [][(/\ lastCall'.role = "coordination"
        /\ lastCall'.op \in HandleOps
        /\ handles[lastCall'.handle] = NoUtxo) =>
          /\ stack' = <<>>
          /\ lastResult'.kind = "error"
          /\ lastResult'.error = ErrInvalidHandle
          /\ UNCHANGED <<inst, nInstances, universeUtxos, utxoTokens, handles>>]_vars

\* starstream_consume_* was called with a handle that is not in a table that
\* holds another handle.
C15_Witness ==
    /\ lastCall.role = "coordination"
    /\ lastCall.op = "consume"
    /\ handles[lastCall.handle] = NoUtxo
    /\ TableKeys(handles) # {}
    /\ lastResult.error = ErrInvalidHandle

\* C16 (handle freshness): the handles given to the Utxo inputs are distinct,
\* so every input is in the table when the entry point starts, and until the
\* transaction ends no step replaces the Utxo under a handle of the table.
C16_HandleFreshness ==
    [][/\ lastCall'.op = "begin" => TableUtxos(handles') = pre'.inputs
       /\ (stack # <<>> /\ stack' # <<>>) =>
             \A h \in Handles : handles[h] # NoUtxo => handles'[h] = handles[h]]_vars

\* C17 (context cleared): whenever no transaction runs, after a runTransaction
\* that returned or one that failed, the coordination context is null.
C17_ContextCleared ==
    stack = <<>> => coordinationContext = "null"

\* C18 (code ids): starstream_coordination_code writes the hash of the
\* coordination code given to runTransaction, whoever calls it, and
\* starstream_this_code writes the hash of the caller's own code.
C18_CodeIds ==
    /\ (lastCall.op = "starstream_coordination_code" /\ lastCall.ret # <<>>) =>
          lastCall.ret = Hash(coordinationContext)
    /\ lastCall.op = "starstream_this_code" =>
          lastCall.ret = Hash(CodeOf(lastCall.role))

\* C19 (handler table per transaction): while a transaction runs, every
\* handler in the effect-handler table was installed by that transaction.
C19_HandlersPerTransaction ==
    stack # <<>> =>
        \A e \in EffectNames :
            effectHandlers[e] # NoHandler => effectHandlers[e].me = pre.tx

\* C20 (effect dispatch): when a Utxo whose code raises an effect is run, the
\* transaction fails if no handler is installed for the effect, and if one is
\* installed the handler is invoked and the transaction goes on.
C20_EffectDispatch ==
    lastCall.op = "new_raising" =>
        IF \A e \in EffectNames : effectHandlers[e] = NoHandler
        THEN lastResult.kind = "error"
        ELSE lastResult.kind # "error"

\* C21 (burn function mismatch): burning a token through a burn import that
\* is not the token's own (its mint function's name with starstream_mint_
\* replaced by starstream_burn_) fails with the bad-burnFn error, and the
\* token stays in the token set of its Utxo.
C21_BurnFnMismatch ==
    [][(/\ lastCall'.op = "burn"
        /\ inst[cur].tokenTable[lastCall'.handle] # NoToken
        /\ lastCall'.fn # tokens[inst[cur].tokenTable[lastCall'.handle]].burnFn)
       => /\ lastResult'.kind = "error"
          /\ lastResult'.error = ErrBadBurnFn
          /\ utxoTokens' = utxoTokens]_vars

\* A token still attached to its Utxo after a burn through the wrong import.
C21_Witness ==
    /\ lastCall.op = "burn"
    /\ lastResult.error = ErrBadBurnFn
    /\ lastCall.target # NoUtxo
    /\ inst[lastCall.target].tokenTable[lastCall.handle] # NoToken
    /\ inst[lastCall.target].tokenTable[lastCall.handle] \in utxoTokens[lastCall.target]
    /\ lastCall.fn # tokens[inst[lastCall.target].tokenTable[lastCall.handle]].burnFn

\* C22 (mint): a successful starstream_mint_* call from a Utxo adds exactly
\* one new Token to that Utxo's token set, changes no other Utxo's token set,
\* and returns a handle that was free in the Utxo's token table and now
\* resolves to the new token.
C22_MintAttaches ==
    [][(lastCall'.op = "mint" /\ lastResult'.kind # "error")
       => /\ utxoTokens[cur] \subseteq utxoTokens'[cur]
          /\ Cardinality(utxoTokens'[cur] \ utxoTokens[cur]) = 1
          /\ \A u \in UtxoIds \ {cur} : utxoTokens'[u] = utxoTokens[u]
          /\ inst[cur].tokenTable[lastCall'.ret] = NoToken
          /\ inst'[cur].tokenTable[lastCall'.ret] \in utxoTokens'[cur] \ utxoTokens[cur]]_vars

\* C23 (mint/burn round trip): a successful burn removes the token from the
\* Utxo's token set and calls the burn function with exactly the (id, amount)
\* the mint function produced for the token, so the burn returns the
\* intermediate the token was minted from.
C23_MintBurnRoundTrip ==
    [][(lastCall'.op = "burn" /\ lastResult'.kind # "error")
       => LET t == inst[cur].tokenTable[lastCall'.handle] IN
          /\ t # NoToken
          /\ t \notin utxoTokens'[cur]
          /\ lastCall'.arg = Given(<<TokenStorage(tokens[t].intermediate).id,
                                      TokenStorage(tokens[t].intermediate).amount>>)
          /\ lastCall'.ret = tokens[t].intermediate]_vars

\* A token minted from intermediate 0 (so id 0, amount 1) has been burned.
C23_Witness ==
    /\ lastCall.op = "burn"
    /\ lastResult.kind # "error"
    /\ lastCall.target # NoUtxo
    /\ txBurned > 0
    /\ lastCall.arg = Given(<<0, 1>>)
    /\ lastCall.ret = 0
    /\ inst[lastCall.target].tokenTable[lastCall.handle] \notin utxoTokens[lastCall.target]

\* C24 (return value): runTransaction returns the Utxo the entry point's
\* return value maps to when that value is a number and a key of the
\* coordination's handle table, and the raw return value in every other case.
C24_ReturnValue ==
    [][lastCall'.op = "return"
       => LET r == lastCall'.ret IN
          IF r[1] = "number" /\ r[2] \in {h \in Handles : handles[h] # NoUtxo}
          THEN lastResult' = Ok(<<"utxo", handles[r[2]]>>)
          ELSE lastResult' = Ok(<<"raw", r>>)]_vars

\* An entry point returned a bigint equal to a key of the handle table, and
\* runTransaction returned it raw.
C24_Witness ==
    /\ lastCall.op = "return"
    /\ lastCall.ret[1] = "bigint"
    /\ handles[lastCall.ret[2]] # NoUtxo
    /\ lastResult = Ok(<<"raw", lastCall.ret>>)

\* C25 (isolation): while a coordination entry point is running, the
\* Universe is as it was before the transaction: the same set of live Utxos
\* and, for each Utxo already in it, the same lifecycle state, memory and
\* token set.
C25_Isolation ==
    (stack # <<>> /\ stack[1] = "coord") =>
        /\ universeUtxos = pre.utxos
        /\ \A u \in pre.utxos :
              /\ inst[u].state = pre.inst[u].state
              /\ inst[u].memory = pre.inst[u].memory
              /\ utxoTokens[u] = pre.tokens[u]

\* The host-mediated exchanges of a transaction.
Exchanges == {"resume", "yield", "new", "query", "mutate", "consume", "mint", "burn"}

\* C26 (ordered log): the host appends one log entry for every host-mediated
\* exchange of a transaction (resume, yield, new, query, mutate, consume,
\* mint, burn), in the order the exchanges happen; a resume entry is followed
\* next by the yield entry of the same Utxo. Checked step by step: each
\* exchange that succeeds writes exactly one entry.
C26_OrderedLog ==
    (lastCall.op \in Exchanges /\ lastResult.kind # "error")
        => Len(ConsoleLog(lastCall)) = 1

\* C27 (content addressing): every contract record of the registry is stored
\* under the SHA-256 digest of the module bytes it was loaded from, and its
\* hash field is that digest; a record produced by asyncify() carries the
\* digest of the record it was made from.
C27_ContentAddressing ==
    /\ \A id \in CodeIds :
          registry.code[id] # NoCode =>
              /\ registry.code[id].hash = Hash(registry.code[id].wasm)
              /\ id = registry.code[id].hash
    /\ registry.asy # <<>> =>
          /\ registry.asy[2].hash = registry.asy[1].hash
          /\ registry.asy[3].hash = registry.asy[1].hash

\* C28 (code immutability): once the registry maps an id to a contract
\* record it maps the id to that record for ever: under every interleaving of
\* resolveCode calls for one id (the un-awaited call of the Utxo constructor
\* included) the bytes are loaded once and a stored record is never replaced.
C28_CodeImmutability ==
    [][\A id \in CodeIds :
          /\ registry.code[id] # NoCode => registry'.code[id] = registry.code[id]
          /\ registry'.loads[id] <= 1]_vars

\* C29 (asyncify is idempotent): for every contract record m,
\* asyncify(asyncify(m)) is the same record as asyncify(m), and asyncify
\* keeps the program id (hash) of m.
C29_AsyncifyIdempotent ==
    [][lastCall'.op = "asyncify"
       => LET m == registry'.asy[1]
              am == registry'.asy[2]
              aam == registry'.asy[3]
          IN  /\ m = IF lastCall'.ret = <<>> THEN registry.asy[2]
                      ELSE registry.code[lastCall'.ret]
              /\ aam = am
              /\ am.hash = m.hash
              /\ aam.hash = m.hash]_vars

\* asyncify() applied twice to a record that holds its bytes: the first call
\* built a new record, the second returned it.
C29_Witness ==
    /\ lastCall.op = "asyncify"
    /\ registry.asy[1].wasm # "null"
    /\ registry.asy[2].obj # registry.asy[1].obj
    /\ registry.asy[3].obj = registry.asy[2].obj

\* C30 (consume releases tokens): after a successful starstream_consume_* on
\* a Utxo the Utxo is in state consumed and its tokens are no longer in its
\* token set (they are intermediates the coordination holds), and a
\* transaction commits only if no consumed Utxo still holds a token.
C30_ConsumeReleasesTokens ==
    /\ (lastCall.op = "exit" /\ lastCall.role = "consume") =>
          /\ inst[lastCall.target].state = "consumed"
          /\ utxoTokens[lastCall.target] = {}
    /\ TxSucceeded =>
          \A u \in TableUtxos(handles) :
              inst[u].state = "consumed" => utxoTokens[u] = {}

\* C31 (exclusive token ownership): in every reachable state each Token is
\* in the token set of at most one Utxo.
C31_ExclusiveOwnership ==
    \A t \in TokenIds : Cardinality({u \in UtxoIds : t \in utxoTokens[u]}) <= 1

\* Two Utxos exist and hold one token each.
C31_Witness ==
    /\ nUtxos >= 2
    /\ \E u, v \in UtxoIds :
          /\ u # v
          /\ utxoTokens[u] # {}
          /\ utxoTokens[v] # {}

\* C32 (handle deduplication): within one coordination instance each Utxo
\* has at most one handle; registering a Utxo that already has a handle (the
\* same Utxo twice among the inputs of runTransaction) gives the handle it has.
C32_HandleDeduplication ==
    \A u \in UtxoIds : Cardinality({h \in Handles : handles[h] = u}) <= 1

\* The star_nft_mint_up_to transaction has returned to the driver.
MintUpToReturned == script.entry = "star_nft_mint_up_to" /\ script.pc = "idle"

\* C33 (mint up to): star_nft_mint_up_to(contract, n, owner) run on a
\* StarNftMint with supply s <= n ends successfully with supply n and the
\* mint contract alive, and the Universe has exactly n - s new Utxos, each a
\* PayToPublicKeyHash of the owner with exactly one StarNft, their ids
\* s+1 .. n.
C33_MintUpTo ==
    MintUpToReturned =>
        LET s == pre.inst[script.nft].memory
            n == script.desired_supply
            new == universeUtxos \ pre.utxos
        IN  /\ lastResult.kind = "ok"
            /\ inst[script.nft].memory = n
            /\ UtxoIsAlive(script.nft)
            /\ script.nft \in universeUtxos
            /\ Cardinality(new) = n - s
            /\ \A u \in new : /\ inst[u].memory = script.owner
                              /\ Cardinality(utxoTokens[u]) = 1
            /\ {tokens[t].id : t \in UNION {utxoTokens[u] : u \in new}} = (s + 1)..n

\* C34 (asyncify protocol): an unwind that starstream_yield started has been
\* stopped by the time the call into the Utxo is back in the scheduler, so no
\* Utxo is left unwinding or rewinding while its code does not run; a rewind
\* that resume started is ended only by the re-entered starstream_yield; and
\* when start or resume comes back the asyncify state is NORMAL and the
\* activation is yielded if the entry point unwound, returned otherwise.
C34_AsyncifyProtocol ==
    /\ [](\A u \in UtxoIds :
             ~(Top = "utxo" /\ cur = u) => inst[u].asyncify = NORMAL)
    /\ [][/\ \A u \in UtxoIds :
                (inst[u].asyncify = REWIND /\ inst'[u].asyncify # REWIND) =>
                    (lastCall'.op = "yield" /\ inst'[u].asyncify = NORMAL)
          /\ (/\ Top = "utxo"
              /\ curOp \in {"new", "start", "resume"}
              /\ lastCall'.op = "exit") =>
                /\ inst'[cur].asyncify = NORMAL
                /\ inst'[cur].state =
                      IF inst[cur].asyncify = UNWIND THEN "yielded" ELSE "returned"]_vars

\* The imports of a coordination script that call into the Utxo they name.
NamingCalls == {"new", "resume", "query", "mutate", "consume"}

\* C35 (cooperative scheduling): the lifecycle state and the memory of a Utxo
\* change only in a step of a coordination host call that names it (the call
\* itself, or the Utxo's code running inside it), so every such call leaves
\* all other Utxos as they were; and through a query or a mutate the target
\* stays yielded.
C35_CooperativeScheduling ==
    [][/\ \A u \in UtxoIds :
             (inst'[u].state # inst[u].state \/ inst'[u].memory # inst[u].memory) =>
                 \/ Top = "utxo" /\ cur = u /\ curOp \in NamingCalls
                 \/ /\ Top = "coord"
                    /\ lastCall'.role = "coordination"
                    /\ lastCall'.op \in NamingCalls
                    /\ lastCall'.target = u
       /\ (Top = "utxo" /\ curOp \in {"query", "mutate"}) =>
             (inst[cur].state = "yielded" /\ inst'[cur].state = "yielded")]_vars

\* Inside a starstream_mutate_* call on one Utxo its code has written its
\* memory, while a second Utxo of the transaction sleeps.
C35_Witness ==
    /\ Top = "utxo"
    /\ curOp = "mutate"
    /\ lastCall.op = "store"
    /\ inst[cur].memory # 0
    /\ \E v \in UtxoIds : v # cur /\ inst[v].state = "yielded" /\ inst[v].memory = 0

\* C36 (single burn): once a burn through a token handle has succeeded (the
\* token under the handle is no longer in the Utxo's set), every later burn
\* call of the same Utxo with that handle fails and calls no burn function.
C36_BurnAtMostOnce ==
    [][(/\ Top = "utxo"
        /\ lastCall'.op = "burn"
        /\ lastCall'.target = cur
        /\ inst[cur].tokenTable[lastCall'.handle] # NoToken
        /\ inst[cur].tokenTable[lastCall'.handle] \notin utxoTokens[cur]) =>
          /\ lastResult'.kind = "error"
          /\ stack' = <<>>
          /\ ~lastCall'.arg.present
          /\ txBurned' = txBurned]_vars

\* C37 (commit frame): when a runTransaction has returned successfully, the
\* Universe's Utxo set differs from the set before the transaction only in
\* Utxos of the handle table of its coordination instance: every other Utxo
\* is a member exactly if it was one before.
C37_CommitFrame ==
    TxSucceeded =>
        \A u \in UtxoIds \ TableUtxos(handles) :
            (u \in universeUtxos) <=> (u \in pre.utxos)

\* A transaction has returned whose handle table holds a Utxo while the
\* Universe holds another one, committed earlier and not in the table.
C37_Witness ==
    /\ lastCall.op = "return"
    /\ lastResult.kind = "ok"
    /\ TableUtxos(handles) # {}
    /\ universeUtxos \ TableUtxos(handles) # {}
====
